---- MODULE Spec2Model ----
(***************************************************************************)
(* A model of the permutation-testing engine of the PUBG cheating          *)
(* analysis: the per-match randomizer, the victim and observer evaluators, *)
(* the team-distribution evaluator and the three Monte Carlo aggregators.  *)
(*                                                                         *)
(* Data representation                                                     *)
(*   datetime            <<day, tick>>, compared lexicographically;        *)
(*                       .date() is the day                                *)
(*   kill event          <<killer, victim, datetime>>                      *)
(*   kills_by_match      function match id -> sequence of kill events      *)
(*   match_start_time    function match id -> datetime (a dict: a match    *)
(*                       may have no key)                                  *)
(*   cheat_start_times   function account id -> day (a dict)               *)
(*   teams_data          sequence of <<match id, account id, team id>>     *)
(*   match_data_dict     function match id -> sequence of                  *)
(*                       <<account id, team id>>                           *)
(*   a Python exception  the field exc of a returned record                *)
(*   a float             an exact rational <<numerator, denominator>>; a   *)
(*                       square root is carried by its square              *)
(***************************************************************************)
EXTENDS Integers, Sequences, FiniteSets, TLC

VARIABLES
    kills_by_match,      \* base data: {match_id: [(killer, victim, dt), ...]}
    match_start_time,    \* base data: {match_id: earliest kill datetime}
    cheat_start_times,   \* base data: {account_id: cheat start date}
    teams_data,          \* base data: [(match_id, account_id, team_id), ...]
    cheater_set,         \* base data: set of cheater account ids
    match_data_dict,     \* base data: {match_id: [(account_id, team_id), ...]}
    pc,                  \* position of the running aggregator, or "idle"
    num_shuffles,        \* the running aggregator's trial count
    results,             \* the running aggregator's collected trial results
    trial,               \* the randomized copy the last trial worked on
    ret                  \* what the last finished call returned or raised

vars == <<kills_by_match, match_start_time, cheat_start_times, teams_data,
          cheater_set, match_data_dict, pc, num_shuffles, results, trial, ret>>

base == <<kills_by_match, match_start_time, cheat_start_times, teams_data,
          cheater_set, match_data_dict>>

\* the base data no function writes to: every use is a lookup or an iteration
read_only == <<match_start_time, cheat_start_times, teams_data, cheater_set>>

----------------------------------------------------------------------------
(* Bounds of the model *)

\* longest event list of a match in the general input families
MaxEvents == 2

----------------------------------------------------------------------------
(* Values *)

NoCall == [fn |-> "none", exc |-> "None", val |-> 0]

\* a function's outcome: a returned value, or a raised exception
Ok(val) == [exc |-> "None", val |-> val]

Exc(name) == [exc |-> name, val |-> 0]

\* the record of a finished call of fn
Call(fn, out) == [fn |-> fn, exc |-> out.exc, val |-> out.val]

SeqsUpTo(S, n) == UNION {[1..k -> S] : k \in 0..n}

\* datetime.date()
DateOf(dt) == dt[1]

\* datetime < datetime
DtLess(a, b) == a[1] < b[1] \/ (a[1] = b[1] /\ a[2] < b[2])

\* the earliest datetime of a non-empty event list, as load_kills keeps it
EarliestKillTime(kills_list) ==
    LET RECURSIVE Scan(_, _)
        Scan(i, best) ==
            IF i > Len(kills_list) THEN best
            ELSE Scan(i + 1, IF DtLess(kills_list[i][3], best)
                             THEN kills_list[i][3] ELSE best)
    IN Scan(2, kills_list[1][3])

\* earliest_kill_time of load_kills: a key for every match with a kill row
LoadMatchStartTime(kbm) ==
    [mid \in {m \in DOMAIN kbm : kbm[m] # <<>>} |-> EarliestKillTime(kbm[mid])]

----------------------------------------------------------------------------
(* victim_cheating_analysis.randomize_players *)

\* all_players = {p for kill in kills_list for p in kill[:2]}
AllPlayers(kills_list) ==
    {kills_list[i][1] : i \in 1..Len(kills_list)}
        \cup {kills_list[i][2] : i \in 1..Len(kills_list)}

\* a faulty id_map: ids drawn with replacement
IdMapsWithReplacement(all_players) == [all_players -> all_players]

\* every id_map that shuffled_players = list(all_players); random.shuffle;
\* dict(zip(all_players, shuffled_players)) can produce: the bijections
IdMaps(all_players) ==
    {f \in [all_players -> all_players] :
        \A a, b \in all_players : a # b => f[a] # f[b]}

\* one id_map per match in mids: the random draws of one call
RECURSIVE IdMapsOfMatches(_, _)
IdMapsOfMatches(kbm, mids) ==
    IF mids = {} THEN {<<>>}
    ELSE LET mid == CHOOSE m \in mids : TRUE
             rest == IdMapsOfMatches(kbm, mids \ {mid})
         IN {(mid :> f) @@ g : f \in IdMaps(AllPlayers(kbm[mid])), g \in rest}

IdMapChoices(kbm) == IdMapsOfMatches(kbm, DOMAIN kbm)

\* a faulty randomizer: matches without events are left out of the result
randomize_players_dropping_empty(kbm, id_map) ==
    [mid \in {m \in DOMAIN kbm : kbm[m] # <<>>} |->
        [i \in 1..Len(kbm[mid]) |->
            <<id_map[mid][kbm[mid][i][1]], id_map[mid][kbm[mid][i][2]],
              kbm[mid][i][3]>>]]

\* randomize_players under the draws id_map
randomize_players(kbm, id_map) ==
    [mid \in DOMAIN kbm |->
        IF kbm[mid] = <<>> THEN <<>>
        ELSE [i \in 1..Len(kbm[mid]) |->
                <<id_map[mid][kbm[mid][i][1]], id_map[mid][kbm[mid][i][2]],
                  kbm[mid][i][3]>>]]

\* what a call leaves in its argument kills_by_match: new_kills is a new dict,
\* every list in it is a new list, and the argument is only iterated
KillsAfterRandomizePlayers(kbm, id_map) == kbm

CallRandomizePlayers ==
    /\ pc = "idle"
    /\ \E id_map \in IdMapChoices(kills_by_match) :
          /\ ret' = Call("randomize_players",
                         Ok(randomize_players(kills_by_match, id_map)))
          /\ kills_by_match' = KillsAfterRandomizePlayers(kills_by_match, id_map)
    /\ UNCHANGED <<read_only, match_data_dict, pc, num_shuffles, results, trial>>

----------------------------------------------------------------------------
(* victim_cheating_analysis.count_victims_of_cheating *)

\* a faulty test: a victim whose cheating starts on the day of the kill passes
VictimQualifiesOnKillDate(killer, victim, kill_time, start_time, cst) ==
    /\ killer \in DOMAIN cst /\ victim \in DOMAIN cst
    /\ cst[victim] > DateOf(start_time)
    /\ cst[killer] <= DateOf(start_time)
    /\ cst[victim] >= DateOf(kill_time)

\* the nested conditions under which one kill adds its victim; the dict holds
\* dates only, so the two "is not None" tests pass for every key
VictimQualifies(killer, victim, kill_time, start_time, cst) ==
    /\ killer \in DOMAIN cst /\ victim \in DOMAIN cst
    /\ cst[victim] > DateOf(start_time)
    /\ cst[killer] <= DateOf(start_time)
    /\ cst[victim] > DateOf(kill_time)

\* the loop over one match's kills_list from index i on; acc is
\* victims_later_cheat so far
RECURSIVE VictimsOfKills(_, _, _, _, _)
VictimsOfKills(kills_list, start_time, cst, i, acc) ==
    IF i > Len(kills_list) THEN acc
    ELSE VictimsOfKills(kills_list, start_time, cst, i + 1,
            IF VictimQualifies(kills_list[i][1], kills_list[i][2],
                               kills_list[i][3], start_time, cst)
            THEN acc \cup {kills_list[i][2]} ELSE acc)

\* match_start_time[mid] of a match with events and no key raises KeyError,
\* whichever match the iteration reaches first
count_victims_of_cheating(kbm, mst, cst) ==
    LET with_events == {mid \in DOMAIN kbm : kbm[mid] # <<>>}
    IN IF \E mid \in with_events : mid \notin DOMAIN mst
       THEN Exc("KeyError")
       ELSE Ok(Cardinality(UNION {VictimsOfKills(kbm[mid], mst[mid], cst, 1, {}) :
                                      mid \in with_events}))

CallCountVictims ==
    /\ pc = "idle"
    /\ ret' = Call("count_victims_of_cheating",
                   count_victims_of_cheating(kills_by_match, match_start_time,
                                             cheat_start_times))
    /\ UNCHANGED <<base, pc, num_shuffles, results, trial>>

----------------------------------------------------------------------------
(* observer_cheating_analysis.count_observers_who_later_cheat *)

\* len(distinct_victims) >= 3
MinDistinctVictims == 3

\* events_sorted with e placed behind every event that is not later than e
InsertByTime(events_sorted, e) ==
    LET k == Cardinality({i \in 1..Len(events_sorted) :
                            ~DtLess(e[3], events_sorted[i][3])})
    IN SubSeq(events_sorted, 1, k) \o <<e>>
          \o SubSeq(events_sorted, k + 1, Len(events_sorted))

\* a faulty evaluator: the events are used in insertion order, never sorted
InInsertionOrder(events) == events

\* sorted(events, key=lambda x: x[2]): stable, by datetime
RECURSIVE SortedByTime(_)
SortedByTime(events) ==
    IF events = <<>> THEN <<>>
    ELSE InsertByTime(SortedByTime(SubSeq(events, 1, Len(events) - 1)),
                      events[Len(events)])

\* a faulty sort: events.sort(key=...) orders the caller's list itself
EventsAfterSortInPlace(events) == SortedByTime(events)

\* what sorted(events, key=...) leaves in events: sorted() builds a new list
EventsAfterSorted(events) == events

\* is_cheater[p] = (cs is not None and cs <= match_start_date)
IsCheater(p, cst, match_start_date) ==
    p \in DOMAIN cst /\ cst[p] <= match_start_date

\* a faulty loop: a later death of a victim overwrites the earlier one
RECURSIVE KillTimeOfLastDeath(_, _, _)
KillTimeOfLastDeath(events_sorted, i, acc) ==
    IF i > Len(events_sorted) THEN acc
    ELSE KillTimeOfLastDeath(events_sorted, i + 1,
            (events_sorted[i][2] :> events_sorted[i][3]) @@ acc)

\* the loop that fills kill_time_of, from index i on: the first death in
\* events_sorted of every victim
RECURSIVE KillTimeOf(_, _, _)
KillTimeOf(events_sorted, i, acc) ==
    IF i > Len(events_sorted) THEN acc
    ELSE KillTimeOf(events_sorted, i + 1,
            IF events_sorted[i][2] \in DOMAIN acc THEN acc
            ELSE acc @@ (events_sorted[i][2] :> events_sorted[i][3]))

\* a faulty test: kills at the very time of A's death count too
DistinctVictimsUpTo(events_sorted, B, tA) ==
    {events_sorted[i][2] :
        i \in {j \in 1..Len(events_sorted) :
                 events_sorted[j][1] = B /\ ~DtLess(tA, events_sorted[j][3])}}

\* distinct_victims of B: the victims of B's kills with dt < tA
DistinctVictims(events_sorted, B, tA) ==
    {events_sorted[i][2] :
        i \in {j \in 1..Len(events_sorted) :
                 events_sorted[j][1] = B /\ DtLess(events_sorted[j][3], tA)}}

\* a faulty test: B's kills before tA are counted, not their victims
HasThreeKills(events_sorted, B, tA) ==
    Cardinality({j \in 1..Len(events_sorted) :
        events_sorted[j][1] = B /\ DtLess(events_sorted[j][3], tA)})
            >= MinDistinctVictims

\* len(distinct_victims) >= 3
HasStreak(events_sorted, B, tA) ==
    Cardinality(DistinctVictims(events_sorted, B, tA)) >= MinDistinctVictims

\* the observers one match adds to observers_set
ObserversOfMatch(events, start_time, cst) ==
    LET events_sorted == SortedByTime(events)
        match_start_date == DateOf(start_time)
        players == AllPlayers(events_sorted)
        kill_time_of == KillTimeOf(events_sorted, 1, <<>>)
    IN IF \A p \in players : ~IsCheater(p, cst, match_start_date)
       THEN {}
       ELSE {A \in players :
               /\ A \in DOMAIN kill_time_of
               /\ ~IsCheater(A, cst, match_start_date)
               /\ A \in DOMAIN cst
               /\ ~(cst[A] <= DateOf(kill_time_of[A]))
               /\ \E B \in players :
                     /\ ~(B = A \/ ~IsCheater(B, cst, match_start_date))
                     /\ HasStreak(events_sorted, B, kill_time_of[A])}

\* match_start_time[mid] of a match with events and no key raises KeyError
count_observers_who_later_cheat(kbm, mst, cst) ==
    LET with_events == {mid \in DOMAIN kbm : kbm[mid] # <<>>}
    IN IF \E mid \in with_events : mid \notin DOMAIN mst
       THEN Exc("KeyError")
       ELSE Ok(Cardinality(UNION {ObserversOfMatch(kbm[mid], mst[mid], cst) :
                                      mid \in with_events}))

\* what a call leaves in its argument kills_by_match: the event lists after
\* the sort of every match
KillsAfterCountObservers(kbm) ==
    [mid \in DOMAIN kbm |-> EventsAfterSorted(kbm[mid])]

CallCountObservers ==
    /\ pc = "idle"
    /\ ret' = Call("count_observers_who_later_cheat",
                   count_observers_who_later_cheat(kills_by_match, match_start_time,
                                                   cheat_start_times))
    /\ kills_by_match' = KillsAfterCountObservers(kills_by_match)
    /\ UNCHANGED <<read_only, match_data_dict, pc, num_shuffles, results, trial>>

----------------------------------------------------------------------------
(* Inputs of the randomizer *)

MatchIds == {"m1", "m2"}

RandTimes == {<<0, 0>>, <<0, 1>>}

RandEvents1 == {"p1", "p2", "p3"} \X {"p1", "p2", "p3"} \X RandTimes

RandEvents2 == {"p3", "p4"} \X {"p3", "p4"} \X {<<0, 0>>}

InitRandomizer ==
    /\ \E l1 \in SeqsUpTo(RandEvents1, MaxEvents),
          l2 \in {<<>>} \cup {<<e>> : e \in RandEvents2} :
          /\ kills_by_match = [mid \in MatchIds |-> IF mid = "m1" THEN l1 ELSE l2]
          /\ match_start_time =
                LoadMatchStartTime([mid \in MatchIds |-> IF mid = "m1" THEN l1 ELSE l2])
    /\ cheat_start_times = <<>>
    /\ teams_data = <<>>
    /\ cheater_set = {}
    /\ match_data_dict = <<>>
    /\ pc = "idle"
    /\ num_shuffles = 0
    /\ results = <<>>
    /\ trial = <<>>
    /\ ret = NoCall

NextRandomizer == CallRandomizePlayers

SpecRandomizer == InitRandomizer /\ [][NextRandomizer]_vars

----------------------------------------------------------------------------
(* Inputs of the victim evaluator *)

\* a dict from a total choice: -1 stands for "no key"
DictOf(f) == [p \in {q \in DOMAIN f : f[q] >= 0} |-> f[p]]

VictimEvents1 == {"p1", "p2"} \X {"p2", "p3"} \X {<<0, 0>>, <<1, 0>>}

VictimLists2 == {<<>>, << <<"p1", "p2", <<1, 0>>>> >>, << <<"p1", "p3", <<1, 0>>>> >>}

InitVictims ==
    /\ \E l1 \in SeqsUpTo(VictimEvents1, MaxEvents), l2 \in VictimLists2 :
          /\ kills_by_match = [mid \in MatchIds |-> IF mid = "m1" THEN l1 ELSE l2]
          /\ match_start_time =
                LoadMatchStartTime([mid \in MatchIds |-> IF mid = "m1" THEN l1 ELSE l2])
    /\ \E c1 \in -1..1, c2 \in -1..2, c3 \in {-1, 1, 2} :
          cheat_start_times = DictOf([p \in {"p1", "p2", "p3"} |->
                IF p = "p1" THEN c1 ELSE IF p = "p2" THEN c2 ELSE c3])
    /\ teams_data = <<>>
    /\ cheater_set = {}
    /\ match_data_dict = <<>>
    /\ pc = "idle"
    /\ num_shuffles = 0
    /\ results = <<>>
    /\ trial = <<>>
    /\ ret = NoCall

NextVictims == CallCountVictims

SpecVictims == InitVictims /\ [][NextVictims]_vars

----------------------------------------------------------------------------
(* Inputs of the observer evaluator *)

\* most kill rows drawn for match m1
MaxObsEvents == 5

\* the kill rows match m1 draws from, in file order (not chronological)
ObsRoster ==
    << <<"p1", "p5", <<1, 0>>>>, <<"p1", "p2", <<0, 0>>>>, <<"p1", "p3", <<0, 0>>>>,
       <<"p1", "p4", <<0, 0>>>>, <<"p1", "p4", <<0, 1>>>>, <<"p1", "p5", <<0, 1>>>>,
       <<"p1", "p2", <<0, 1>>>>, <<"p2", "p3", <<0, 0>>>>, <<"p2", "p4", <<0, 0>>>>,
       <<"p2", "p1", <<0, 0>>>>, <<"p1", "p5", <<0, 0>>>> >>

\* the rows of roster whose index is in S, in file order
RECURSIVE PickRows(_, _, _)
PickRows(roster, S, i) ==
    IF i > Len(roster) THEN <<>>
    ELSE (IF i \in S THEN <<roster[i]>> ELSE <<>>) \o PickRows(roster, S, i + 1)

\* p1 kills p2, p3 and p4, then p5
StreakMatch ==
    << <<"p1", "p2", <<0, 0>>>>, <<"p1", "p3", <<0, 0>>>>, <<"p1", "p4", <<0, 0>>>>,
       <<"p1", "p5", <<0, 1>>>> >>

InitObserversGeneral ==
    /\ \E S \in {T \in SUBSET (1..Len(ObsRoster)) : Cardinality(T) <= MaxObsEvents},
          l2 \in {<<>>, StreakMatch} :
          /\ kills_by_match =
                [mid \in MatchIds |-> IF mid = "m1" THEN PickRows(ObsRoster, S, 1) ELSE l2]
          /\ match_start_time = LoadMatchStartTime(
                [mid \in MatchIds |-> IF mid = "m1" THEN PickRows(ObsRoster, S, 1) ELSE l2])
    /\ \E c1 \in -1..1, c2 \in -1..0, c4 \in {-1, 2}, c5 \in -1..2 :
          cheat_start_times = DictOf([p \in {"p1", "p2", "p4", "p5"} |->
                IF p = "p1" THEN c1 ELSE IF p = "p2" THEN c2
                ELSE IF p = "p4" THEN c4 ELSE c5])

\* Day 0 is 2020-01-01. Cheater C (cheat start day 0) plays a match that
\* starts on day 4, kills V at ticks 0, 1 and 2 (10:00:00, 10:05:00, 10:10:00)
\* and A at tick 3 (10:15:00); A's cheat start is day 9.
ScenarioKills ==
    [mid \in {"m1"} |->
        << <<"C", "V", <<4, 0>>>>, <<"C", "V", <<4, 1>>>>, <<"C", "V", <<4, 2>>>>,
           <<"C", "A", <<4, 3>>>> >>]

InitObserversScenario ==
    /\ kills_by_match = ScenarioKills
    /\ match_start_time = LoadMatchStartTime(ScenarioKills)
    /\ cheat_start_times = ("C" :> 0) @@ ("A" :> 9)

InitObservers ==
    /\ InitObserversGeneral \/ InitObserversScenario
    /\ teams_data = <<>>
    /\ cheater_set = {}
    /\ match_data_dict = <<>>
    /\ pc = "idle"
    /\ num_shuffles = 0
    /\ results = <<>>
    /\ trial = <<>>
    /\ ret = NoCall

NextObservers == CallCountObservers

SpecObservers == InitObservers /\ [][NextObservers]_vars

----------------------------------------------------------------------------
(* team_distribution: the evaluator *)

\* buckets = {0: 0, 1: 0, 2: 0, 3: 0, 4: 0}: the last bucket
MaxBucket == 4

Buckets == 0..MaxBucket

MinOf(a, b) == IF a <= b THEN a ELSE b

\* the account ids of the rows of a list of (account_id, team_id) pairs that
\* are on team tid and in cheaters, in list order
RECURSIVE CheatersOnTeam(_, _, _, _)
CheatersOnTeam(player_list, tid, cheaters, i) ==
    IF i > Len(player_list) THEN <<>>
    ELSE (IF player_list[i][2] = tid /\ player_list[i][1] \in cheaters
          THEN <<player_list[i][1]>> ELSE <<>>)
            \o CheatersOnTeam(player_list, tid, cheaters, i + 1)

\* storage of _group_by_match_for_shuffle: match_id -> [(account_id, team_id)]
group_by_match_for_shuffle(td) ==
    [mid \in {td[i][1] : i \in 1..Len(td)} |->
        LET rows == SelectSeq(td, LAMBDA row : row[1] = mid)
        IN [i \in 1..Len(rows) |-> <<rows[i][2], rows[i][3]>>]]

\* the dict (match_id, team_id) -> [cheater ids] of a grouping by match: a
\* key for every team label a row carries, a list entry for every cheater row
MatchTeamCheaters(by_match, cheaters) ==
    [key \in UNION {{<<mid, by_match[mid][i][2]>> : i \in 1..Len(by_match[mid])} :
                        mid \in DOMAIN by_match} |->
        CheatersOnTeam(by_match[key[1]], key[2], cheaters, 1)]

\* _group_by_match_team: rows are appended per (match_id, team_id) as the id
\* or None, then the None entries are removed
group_by_match_team(td, cheaters) ==
    MatchTeamCheaters(group_by_match_for_shuffle(td), cheaters)

\* a faulty bucket: saturates one bucket early
HowManySaturatingEarly(cheater_ids) == MinOf(Len(cheater_ids), MaxBucket - 1)

\* how_many = min(len(cheater_ids), 4)
HowMany(cheater_ids) == MinOf(Len(cheater_ids), MaxBucket)

\* the loop of _count_cheaters_in_buckets over the groups in keys
RECURSIVE CountInto(_, _, _)
CountInto(match_team_cheaters, keys, buckets) ==
    IF keys = {} THEN buckets
    ELSE LET key == CHOOSE k \in keys : TRUE
         IN CountInto(match_team_cheaters, keys \ {key},
                [buckets EXCEPT ![HowMany(match_team_cheaters[key])] = @ + 1])

count_cheaters_in_buckets(match_team_cheaters) ==
    CountInto(match_team_cheaters, DOMAIN match_team_cheaters, [b \in Buckets |-> 0])

\* estimate_cheaters_distribution on the loaded files
estimate_cheaters_distribution(td, cheaters) ==
    count_cheaters_in_buckets(group_by_match_team(td, cheaters))

\* whether s and t hold the same values the same number of times
SameMultiset(s, t) ==
    /\ Len(s) = Len(t)
    /\ \A x \in {s[i] : i \in 1..Len(s)} \cup {t[i] : i \in 1..Len(t)} :
          Cardinality({i \in 1..Len(s) : s[i] = x})
              = Cardinality({i \in 1..Len(t) : t[i] = x})

\* team_ids = [info[1] for info in player_list]
TeamIds(player_list) == [i \in 1..Len(player_list) |-> player_list[i][2]]

\* a faulty draw: every place takes any label of the match, as random.choices
ShufflesWithReplacement(team_ids) ==
    [1..Len(team_ids) -> {team_ids[i] : i \in 1..Len(team_ids)}]

\* every order random.shuffle(team_ids) can leave the list in
Shuffles(team_ids) ==
    {s \in [1..Len(team_ids) -> {team_ids[i] : i \in 1..Len(team_ids)}] :
        SameMultiset(s, team_ids)}

\* one shuffled team_ids per match in mids: the random draws of one call
RECURSIVE TeamIdsOfMatches(_, _)
TeamIdsOfMatches(match_data_by_match, mids) ==
    IF mids = {} THEN {<<>>}
    ELSE LET mid == CHOOSE m \in mids : TRUE
             rest == TeamIdsOfMatches(match_data_by_match, mids \ {mid})
         IN {(mid :> s) @@ g :
                s \in Shuffles(TeamIds(match_data_by_match[mid])), g \in rest}

TeamIdChoices(match_data_by_match) ==
    TeamIdsOfMatches(match_data_by_match, DOMAIN match_data_by_match)

\* zip(player_list, team_ids): every account with its new team, per match
ShuffledTeams(match_data_by_match, team_ids) ==
    [mid \in DOMAIN match_data_by_match |->
        [i \in 1..Len(match_data_by_match[mid]) |->
            <<match_data_by_match[mid][i][1], team_ids[mid][i]>>]]

\* _shuffle_teams_and_count under the draws team_ids
shuffle_teams_and_count(match_data_by_match, cheaters, team_ids) ==
    count_cheaters_in_buckets(
        MatchTeamCheaters(ShuffledTeams(match_data_by_match, team_ids), cheaters))

CallEstimateCheatersDistribution ==
    /\ pc = "idle"
    /\ ret' = Call("estimate_cheaters_distribution",
                   Ok(estimate_cheaters_distribution(teams_data, cheater_set)))
    /\ UNCHANGED <<base, pc, num_shuffles, results, trial>>

\* what a call leaves in its argument match_data_by_match: team_ids is a new
\* list, random.shuffle reorders it alone, and player_list is only iterated
PlayerListsAfterShuffle(match_data_by_match, team_ids) == match_data_by_match

CallShuffleTeamsAndCount ==
    /\ pc = "idle"
    /\ \E team_ids \in TeamIdChoices(match_data_dict) :
          /\ trial' = ShuffledTeams(match_data_dict, team_ids)
          /\ ret' = Call("shuffle_teams_and_count",
                         Ok(shuffle_teams_and_count(match_data_dict, cheater_set,
                                                    team_ids)))
          /\ match_data_dict' = PlayerListsAfterShuffle(match_data_dict, team_ids)
    /\ UNCHANGED <<kills_by_match, read_only, pc, num_shuffles, results>>

----------------------------------------------------------------------------
(* Inputs of the team-distribution evaluator *)

\* most team rows drawn from the roster
MaxTeamRows == 6

\* the team rows drawn from, in file order
TeamRoster ==
    << <<"m1", "a1", "tA">>, <<"m1", "a2", "tA">>, <<"m1", "a3", "tA">>,
       <<"m1", "a4", "tA">>, <<"m1", "a5", "tA">>, <<"m1", "a6", "tB">>,
       <<"m1", "a1", "tB">>, <<"m2", "a1", "tA">>, <<"m2", "a6", "tB">>,
       <<"m1", "a1", "tA">> >>

InitTeams ==
    /\ \E S \in {T \in SUBSET (1..Len(TeamRoster)) : Cardinality(T) <= MaxTeamRows} :
          teams_data = PickRows(TeamRoster, S, 1)
    /\ cheater_set \in {{}, {"a1"}, {"a1", "a2", "a3", "a4"},
                        {"a1", "a2", "a3", "a4", "a5", "a7"}}
    /\ kills_by_match = <<>>
    /\ match_start_time = <<>>
    /\ cheat_start_times = <<>>
    /\ match_data_dict = group_by_match_for_shuffle(teams_data)
    /\ pc = "idle"
    /\ num_shuffles = 0
    /\ results = <<>>
    /\ trial = <<>>
    /\ ret = NoCall

NextTeams == CallEstimateCheatersDistribution \/ CallShuffleTeamsAndCount

SpecTeams == InitTeams /\ [][NextTeams]_vars

----------------------------------------------------------------------------
(* Numbers of the aggregators: exact rationals <<numerator, denominator>> in
   lowest terms with a positive denominator; Sqrt(q) is carried as the
   non-negative root of q, and base + sign * Sqrt(sq) as a record *)

RECURSIVE GCD(_, _)
GCD(a, b) == IF b = 0 THEN a ELSE GCD(b, a % b)

Abs(a) == IF a < 0 THEN -a ELSE a

Rat(n, d) ==
    LET g == GCD(Abs(n), Abs(d))
        s == IF d < 0 THEN -1 ELSE 1
    IN <<(s * n) \div g, (s * d) \div g>>

FromInt(n) == <<n, 1>>

Zero == FromInt(0)

RatAdd(a, b) == Rat(a[1] * b[2] + b[1] * a[2], a[2] * b[2])

RatSub(a, b) == Rat(a[1] * b[2] - b[1] * a[2], a[2] * b[2])

RatMul(a, b) == Rat(a[1] * b[1], a[2] * b[2])

\* a / b for b # 0
RatDiv(a, b) == Rat(a[1] * b[2], a[2] * b[1])

\* math.sqrt(q)
Sqrt(q) == [sq |-> q]

\* math.sqrt(a) / math.sqrt(b), as a root
RootDiv(a, b) == [sq |-> RatDiv(a.sq, b.sq)]

\* c * root for a rational c >= 0, as a root
RootScale(c, root) == [sq |-> RatMul(RatMul(c, c), root.sq)]

\* base + sign * root; a root of 0 leaves the point base
Offset(base_val, sign, root) ==
    [base |-> base_val, sign |-> IF root.sq = Zero THEN 0 ELSE sign, sq |-> root.sq]

\* the float 1.96
Z95 == Rat(196, 100)

RECURSIVE SumSeq(_)
SumSeq(s) == IF s = <<>> THEN 0 ELSE s[1] + SumSeq(Tail(s))

\* sum((r - mean_val)**2 for r in results)
RECURSIVE SumSqDev(_, _)
SumSqDev(vals, mean_val) ==
    IF vals = <<>> THEN Zero
    ELSE RatAdd(RatMul(RatSub(FromInt(vals[1]), mean_val),
                       RatSub(FromInt(vals[1]), mean_val)),
                SumSqDev(Tail(vals), mean_val))

\* a faulty deviation: the sample standard deviation, divisor n - 1
SampleStdDev(vals, mean_val, n) ==
    Sqrt(RatDiv(SumSqDev(vals, mean_val), FromInt(n - 1)))

\* std_dev = math.sqrt(sum((r - mean_val)**2 for r in results) / num_shuffles)
StdDev(vals, mean_val, n) ==
    Sqrt(RatDiv(SumSqDev(vals, mean_val), FromInt(n)))

\* margin_of_error = 1.96 * (std_dev / math.sqrt(num_shuffles))
MarginOfError(std_dev, n) == RootScale(Z95, RootDiv(std_dev, Sqrt(FromInt(n))))

----------------------------------------------------------------------------
(* The kill-based aggregators randomize_and_count_victims and
   randomize_and_count_observers: the same text after the trial loop *)

\* most trials an aggregator is asked for
MaxShuffles == 3

\* a faulty tail: no return for an empty results list
MeanAndIntervalUnguarded(vals, n) ==
    IF n = 0 THEN Exc("ZeroDivisionError")
    ELSE LET mean_val == RatDiv(FromInt(SumSeq(vals)), FromInt(n))
             std_dev == IF n > 1 THEN StdDev(vals, mean_val, n) ELSE Sqrt(Zero)
             margin_of_error == MarginOfError(std_dev, n)
         IN Ok([mean |-> mean_val,
                lower |-> Offset(mean_val, -1, margin_of_error),
                upper |-> Offset(mean_val, 1, margin_of_error)])

\* from "if not results" to the return: (mean, (ci_lower, ci_upper))
MeanAndInterval(vals, n) ==
    IF vals = <<>>
    THEN Ok([mean |-> Zero, lower |-> Offset(Zero, 0, Sqrt(Zero)),
             upper |-> Offset(Zero, 0, Sqrt(Zero))])
    ELSE LET mean_val == RatDiv(FromInt(SumSeq(vals)), FromInt(n))
             std_dev == IF n > 1 THEN StdDev(vals, mean_val, n) ELSE Sqrt(Zero)
             margin_of_error == MarginOfError(std_dev, n)
         IN Ok([mean |-> mean_val,
                lower |-> Offset(mean_val, -1, margin_of_error),
                upper |-> Offset(mean_val, 1, margin_of_error)])

\* the evaluator a kill-based aggregator applies to each trial
Evaluate(fn, kbm, mst, cst) ==
    IF fn = "randomize_and_count_victims"
    THEN count_victims_of_cheating(kbm, mst, cst)
    ELSE count_observers_who_later_cheat(kbm, mst, cst)

\* a call of kill-based aggregator fn with num_shuffles = n reaches its loop
Enter(fn, n, empty) ==
    /\ pc = "idle"
    /\ pc' = fn
    /\ num_shuffles' = n
    /\ results' = empty
    /\ trial' = <<>>
    /\ ret' = NoCall
    /\ UNCHANGED base

\* one pass of the loop of kill-based aggregator fn: randomize, count, append;
\* an exception of the evaluator ends the call
KillTrial(fn) ==
    /\ pc = fn
    /\ Len(results) < num_shuffles
    /\ \E id_map \in IdMapChoices(kills_by_match) :
          LET new_kills == randomize_players(kills_by_match, id_map)
              count == Evaluate(fn, new_kills, match_start_time, cheat_start_times)
          IN /\ trial' = new_kills
             /\ kills_by_match' = KillsAfterRandomizePlayers(kills_by_match, id_map)
             /\ IF count.exc = "None"
                THEN /\ results' = Append(results, count.val)
                     /\ UNCHANGED <<pc, ret>>
                ELSE /\ ret' = Call(fn, count)
                     /\ pc' = "idle"
                     /\ UNCHANGED results
    /\ UNCHANGED <<read_only, match_data_dict, num_shuffles>>

\* the loop of kill-based aggregator fn is over: statistics and return
KillReturn(fn) ==
    /\ pc = fn
    /\ Len(results) = num_shuffles
    /\ ret' = Call(fn, MeanAndInterval(results, num_shuffles))
    /\ pc' = "idle"
    /\ UNCHANGED <<base, num_shuffles, results, trial>>

StartRandomizeAndCountVictims ==
    \E n \in 0..MaxShuffles : Enter("randomize_and_count_victims", n, <<>>)

VictimsTrial == KillTrial("randomize_and_count_victims")

VictimsReturn == KillReturn("randomize_and_count_victims")

StartRandomizeAndCountObservers ==
    \E n \in 0..MaxShuffles : Enter("randomize_and_count_observers", n, <<>>)

ObserversTrial == KillTrial("randomize_and_count_observers")

ObserversReturn == KillReturn("randomize_and_count_observers")

----------------------------------------------------------------------------
(* team_distribution.shuffle_teams_and_get_distribution *)

\* the loop over repeated_outcomes from bucket on; margin is the local
\* margin_of_error, <<>> while no assignment has bound it; out collects
\* avg_distribution and confidence_intervals
RECURSIVE BucketStatistics(_, _, _, _, _)
BucketStatistics(repeated_outcomes, n, bucket, margin, out) ==
    IF bucket > MaxBucket THEN Ok(out)
    ELSE IF n = 0 THEN Exc("ZeroDivisionError")
    ELSE LET all_vals == repeated_outcomes[bucket]
             mean_val == RatDiv(FromInt(SumSeq(all_vals)), FromInt(n))
             bound == IF n > 1
                      THEN <<MarginOfError(StdDev(all_vals, mean_val, n), n)>>
                      ELSE margin
         IN IF bound = <<>> THEN Exc("UnboundLocalError")
            ELSE BucketStatistics(repeated_outcomes, n, bucket + 1, bound,
                    [avg |-> out.avg @@ (bucket :> mean_val),
                     ci |-> out.ci @@ (bucket :>
                              <<Offset(mean_val, -1, bound[1]),
                                Offset(mean_val, 1, bound[1])>>)])

\* the call groups the rows by match and reaches its loop
StartShuffleTeamsAndGetDistribution ==
    /\ pc = "idle"
    /\ pc' = "shuffle_teams_and_get_distribution"
    /\ \E n \in 0..MaxShuffles : num_shuffles' = n
    /\ match_data_dict' = group_by_match_for_shuffle(teams_data)
    /\ results' = [b \in Buckets |-> <<>>]
    /\ trial' = <<>>
    /\ ret' = NoCall
    /\ UNCHANGED <<kills_by_match, read_only>>

\* one pass of the loop: shuffle, count, append per bucket
TeamsTrial ==
    /\ pc = "shuffle_teams_and_get_distribution"
    /\ Len(results[0]) < num_shuffles
    /\ \E team_ids \in TeamIdChoices(match_data_dict) :
          LET distribution_now ==
                  shuffle_teams_and_count(match_data_dict, cheater_set, team_ids)
          IN /\ trial' = ShuffledTeams(match_data_dict, team_ids)
             /\ results' = [b \in Buckets |-> Append(results[b], distribution_now[b])]
             /\ match_data_dict' = PlayerListsAfterShuffle(match_data_dict, team_ids)
    /\ UNCHANGED <<kills_by_match, read_only, pc, num_shuffles, ret>>

\* the loop is over: statistics per bucket and return
TeamsReturn ==
    /\ pc = "shuffle_teams_and_get_distribution"
    /\ Len(results[0]) = num_shuffles
    /\ ret' = Call("shuffle_teams_and_get_distribution",
                   BucketStatistics(results, num_shuffles, 0, <<>>,
                                    [avg |-> <<>>, ci |-> <<>>]))
    /\ pc' = "idle"
    /\ UNCHANGED <<base, num_shuffles, results, trial>>

----------------------------------------------------------------------------
(* Inputs of the aggregators: loaded base data sets *)

AggregatorData ==
    { [kills |-> [mid \in MatchIds |-> IF mid = "m1" THEN StreakMatch ELSE <<>>],
       cst |-> ("p1" :> 0) @@ ("p4" :> 2) @@ ("p5" :> 2),
       teams |-> << <<"m1", "a1", "tA">>, <<"m1", "a2", "tA">>, <<"m1", "a3", "tB">>,
                    <<"m1", "a4", "tB">>, <<"m2", "a1", "tA">>, <<"m2", "a5", "tB">> >>,
       cheaters |-> {"a1", "a2"}],
      [kills |-> [mid \in MatchIds |->
                    IF mid = "m1"
                    THEN << <<"p1", "p2", <<0, 0>>>>, <<"p2", "p3", <<0, 1>>>> >>
                    ELSE << <<"p3", "p4", <<0, 0>>>> >>],
       cst |-> ("p1" :> 0) @@ ("p2" :> 1) @@ ("p3" :> 2) @@ ("p4" :> 0),
       teams |-> << <<"m1", "a1", "tA">>, <<"m1", "a2", "tB">>, <<"m1", "a3", "tB">> >>,
       cheaters |-> {"a1", "a3"}] }

InitAggregate ==
    /\ \E d \in AggregatorData :
          /\ kills_by_match = d.kills
          /\ match_start_time = LoadMatchStartTime(d.kills)
          /\ cheat_start_times = d.cst
          /\ teams_data = d.teams
          /\ cheater_set = d.cheaters
          /\ match_data_dict = group_by_match_for_shuffle(d.teams)
    /\ pc = "idle"
    /\ num_shuffles = 0
    /\ results = <<>>
    /\ trial = <<>>
    /\ ret = NoCall

NextAggregate ==
    \/ StartRandomizeAndCountVictims
    \/ VictimsTrial
    \/ VictimsReturn
    \/ StartRandomizeAndCountObservers
    \/ ObserversTrial
    \/ ObserversReturn
    \/ StartShuffleTeamsAndGetDistribution
    \/ TeamsTrial
    \/ TeamsReturn

SpecAggregate == InitAggregate /\ [][NextAggregate]_vars

----------------------------------------------------------------------------
(* Every operation on loaded base data: the aggregators, and the randomizer
   and the evaluators called on their own *)

\* a loaded data set whose kill rows of m1 are not in chronological order
UnsortedData ==
    [kills |-> [mid \in MatchIds |->
                  IF mid = "m1"
                  THEN << <<"p2", "p3", <<0, 1>>>>, <<"p1", "p2", <<0, 0>>>> >>
                  ELSE << <<"p3", "p4", <<0, 0>>>> >>],
     cst |-> ("p1" :> 0) @@ ("p2" :> 1) @@ ("p3" :> 2) @@ ("p4" :> 0),
     teams |-> << <<"m1", "a1", "tA">>, <<"m1", "a2", "tB">>, <<"m1", "a3", "tB">>,
                  <<"m2", "a1", "tA">> >>,
     cheaters |-> {"a1", "a3"}]

InitOperations ==
    /\ kills_by_match = UnsortedData.kills
    /\ match_start_time = LoadMatchStartTime(UnsortedData.kills)
    /\ cheat_start_times = UnsortedData.cst
    /\ teams_data = UnsortedData.teams
    /\ cheater_set = UnsortedData.cheaters
    /\ match_data_dict = group_by_match_for_shuffle(UnsortedData.teams)
    /\ pc = "idle"
    /\ num_shuffles = 0
    /\ results = <<>>
    /\ trial = <<>>
    /\ ret = NoCall

NextOperations ==
    \/ NextAggregate
    \/ CallRandomizePlayers
    \/ CallCountVictims
    \/ CallCountObservers
    \/ CallEstimateCheatersDistribution
    \/ CallShuffleTeamsAndCount

SpecOperations == InitOperations /\ [][NextOperations]_vars

----------------------------------------------------------------------------
(* Inputs of the evaluators called with a match_start_time that lacks keys *)

\* the event lists match m1 draws from
MissingStartLists1 ==
    {<<>>, StreakMatch, << <<"p1", "p5", <<0, 0>>>> >>,
     << <<"p1", "p2", <<0, 0>>>>, <<"p1", "p4", <<1, 0>>>> >>}

\* dict d without the keys outside keep
Restrict(d, keep) == [k \in DOMAIN d \cap keep |-> d[k]]

InitMissingStart ==
    /\ \E l1 \in MissingStartLists1, l2 \in VictimLists2, keep \in SUBSET MatchIds :
          /\ kills_by_match = [mid \in MatchIds |-> IF mid = "m1" THEN l1 ELSE l2]
          /\ match_start_time = Restrict(
                LoadMatchStartTime([mid \in MatchIds |-> IF mid = "m1" THEN l1 ELSE l2]),
                keep)
    /\ \E c1 \in -1..0, c2 \in {-1, 2}, c4 \in {-1, 2}, c5 \in {-1, 2} :
          cheat_start_times = DictOf([p \in {"p1", "p2", "p4", "p5"} |->
                IF p = "p1" THEN c1 ELSE IF p = "p2" THEN c2
                ELSE IF p = "p4" THEN c4 ELSE c5])
    /\ teams_data = <<>>
    /\ cheater_set = {}
    /\ match_data_dict = <<>>
    /\ pc = "idle"
    /\ num_shuffles = 0
    /\ results = <<>>
    /\ trial = <<>>
    /\ ret = NoCall

NextMissingStart == CallCountVictims \/ CallCountObservers

SpecMissingStart == InitMissingStart /\ [][NextMissingStart]_vars

----------------------------------------------------------------------------
(* Inputs of the evaluators with kill rows in any file order: several deaths
   of one victim and rows with equal timestamps *)

\* most kill rows drawn for match m1
MaxReorderEvents == 4

\* the kill rows match m1 draws from, in file order (not chronological)
ReorderRoster ==
    << <<"p1", "p5", <<0, 1>>>>, <<"p1", "p2", <<0, 0>>>>, <<"p1", "p3", <<0, 0>>>>,
       <<"p1", "p5", <<0, 0>>>>, <<"p1", "p4", <<0, 0>>>>, <<"p2", "p1", <<0, 1>>>> >>

\* the event lists match m2 draws from
ReorderLists2 == {<<>>, << <<"p1", "p5", <<1, 0>>>>, <<"p1", "p2", <<0, 0>>>> >>}

InitReorder ==
    /\ \E S \in {T \in SUBSET (1..Len(ReorderRoster)) : Cardinality(T) <= MaxReorderEvents},
          l2 \in ReorderLists2 :
          /\ kills_by_match =
                [mid \in MatchIds |-> IF mid = "m1" THEN PickRows(ReorderRoster, S, 1) ELSE l2]
          /\ match_start_time = LoadMatchStartTime(
                [mid \in MatchIds |-> IF mid = "m1" THEN PickRows(ReorderRoster, S, 1) ELSE l2])
    /\ \E c1 \in -1..0, c2 \in {-1, 1}, c5 \in {-1, 1, 2} :
          cheat_start_times = DictOf([p \in {"p1", "p2", "p5"} |->
                IF p = "p1" THEN c1 ELSE IF p = "p2" THEN c2 ELSE c5])
    /\ teams_data = <<>>
    /\ cheater_set = {}
    /\ match_data_dict = <<>>
    /\ pc = "idle"
    /\ num_shuffles = 0
    /\ results = <<>>
    /\ trial = <<>>
    /\ ret = NoCall

NextReorder == CallCountVictims \/ CallCountObservers

SpecReorder == InitReorder /\ [][NextReorder]_vars

----------------------------------------------------------------------------
(* The claims *)

\* C1: randomize_players returns a mapping with exactly the input's match
\* ids; every match keeps the length of its event list and the timestamp at
\* every index; a match with no events maps to the empty list.
RandomizeKeepsShapeAndTimes ==
    ret.fn = "randomize_players" =>
        /\ ret.exc = "None"
        /\ DOMAIN ret.val = DOMAIN kills_by_match
        /\ \A mid \in DOMAIN kills_by_match :
              /\ Len(ret.val[mid]) = Len(kills_by_match[mid])
              /\ \A i \in 1..Len(kills_by_match[mid]) :
                    ret.val[mid][i][3] = kills_by_match[mid][i][3]
              /\ kills_by_match[mid] = <<>> => ret.val[mid] = <<>>

\* a call on one empty match and one match of two events at different
\* times, whose ids the draw changed
RandomizeShapeWitness ==
    /\ ret.fn = "randomize_players"
    /\ \E mid \in DOMAIN kills_by_match : kills_by_match[mid] = <<>>
    /\ \E mid \in DOMAIN kills_by_match :
          /\ Len(kills_by_match[mid]) = 2
          /\ kills_by_match[mid][1][3] # kills_by_match[mid][2][3]
          /\ ret.val[mid] # kills_by_match[mid]

\* C2: per match with player set P the output ids are exactly P, two
\* positions hold the same id in the output iff they do in the input (one
\* bijection on P, drawn for that match alone), and a match with a single
\* distinct id maps to itself.
RandomizeIsPerMatchBijection ==
    ret.fn = "randomize_players" =>
        \A mid \in DOMAIN kills_by_match :
            LET inp == kills_by_match[mid]
                out == ret.val[mid]
            IN /\ AllPlayers(out) = AllPlayers(inp)
               /\ \A i, j \in 1..Len(inp) : \A a, b \in {1, 2} :
                     (out[i][a] = out[j][b]) <=> (inp[i][a] = inp[j][b])
               /\ Cardinality(AllPlayers(inp)) = 1 => out = inp

\* a call on a match with a single distinct id and a match of three ids
\* disjoint from it, the latter changed by the draw
RandomizeBijectionWitness ==
    /\ ret.fn = "randomize_players"
    /\ \E m, n \in DOMAIN kills_by_match :
          /\ Cardinality(AllPlayers(kills_by_match[m])) = 1
          /\ Cardinality(AllPlayers(kills_by_match[n])) = 3
          /\ AllPlayers(kills_by_match[m]) \cap AllPlayers(kills_by_match[n]) = {}
          /\ ret.val[n] # kills_by_match[n]
          /\ ret.val[m] = kills_by_match[m]


\* every account id of the base kill data
Accounts == UNION {AllPlayers(kills_by_match[mid]) : mid \in DOMAIN kills_by_match}

\* C3: count_victims_of_cheating returns the number of distinct accounts V
\* with a kill (K, V, t) in some match m such that K's cheat start date is at
\* most date(match_start_time[m]) and V's cheat start date is after
\* date(match_start_time[m]) and after date(t).
VictimCountIsDistinctQualifiedVictims ==
    ret.fn = "count_victims_of_cheating" =>
        /\ ret.exc = "None"
        /\ ret.val = Cardinality({V \in Accounts :
              \E m \in DOMAIN kills_by_match : \E i \in 1..Len(kills_by_match[m]) :
                 LET K == kills_by_match[m][i][1]
                     t == kills_by_match[m][i][3]
                     start == DateOf(match_start_time[m])
                 IN /\ kills_by_match[m][i][2] = V
                    /\ K \in DOMAIN cheat_start_times
                    /\ V \in DOMAIN cheat_start_times
                    /\ cheat_start_times[K] <= start
                    /\ cheat_start_times[V] > start
                    /\ cheat_start_times[V] > DateOf(t)})

\* a count of 1 for a victim killed by an active cheater in both matches,
\* beside a victim whose cheating starts on the day of the kill
VictimCountWitness ==
    /\ ret.fn = "count_victims_of_cheating"
    /\ ret.val = 1
    /\ \E V \in Accounts : \A m \in DOMAIN kills_by_match :
          \E i \in 1..Len(kills_by_match[m]) :
             /\ kills_by_match[m][i][2] = V
             /\ VictimQualifies(kills_by_match[m][i][1], V, kills_by_match[m][i][3],
                                match_start_time[m], cheat_start_times)
    /\ \E i \in 1..Len(kills_by_match["m1"]) :
          LET e == kills_by_match["m1"][i]
          IN /\ e[1] \in DOMAIN cheat_start_times /\ e[2] \in DOMAIN cheat_start_times
             /\ cheat_start_times[e[1]] <= DateOf(match_start_time["m1"])
             /\ cheat_start_times[e[2]] > DateOf(match_start_time["m1"])
             /\ cheat_start_times[e[2]] = DateOf(e[3])

\* whether account p has a cheat start date on or before day d
CheatsBy(p, d) == p \in DOMAIN cheat_start_times /\ cheat_start_times[p] <= d

\* whether account p has a cheat start date after day d
CheatsAfter(p, d) == p \in DOMAIN cheat_start_times /\ cheat_start_times[p] > d

\* the deaths of A in match m
DeathsOf(A, m) ==
    {kills_by_match[m][i][3] :
        i \in {j \in 1..Len(kills_by_match[m]) : kills_by_match[m][j][2] = A}}

\* the earliest of a non-empty set of datetimes
Earliest(S) == CHOOSE t \in S : \A u \in S : ~DtLess(u, t)

\* A is an observer in match m, as C4 states it
IsObserverIn(A, m) ==
    LET start == DateOf(match_start_time[m])
        kills == kills_by_match[m]
    IN /\ DeathsOf(A, m) # {}
       /\ ~CheatsBy(A, start)
       /\ CheatsAfter(A, DateOf(Earliest(DeathsOf(A, m))))
       /\ \E B \in AllPlayers(kills) \ {A} :
             /\ CheatsBy(B, start)
             /\ Cardinality({V \in AllPlayers(kills) :
                   \E i \in 1..Len(kills) :
                      /\ kills[i][1] = B /\ kills[i][2] = V
                      /\ DtLess(kills[i][3], Earliest(DeathsOf(A, m)))}) >= 3

ScenarioEvaluated ==
    /\ kills_by_match = ScenarioKills
    /\ cheat_start_times = ("C" :> 0) @@ ("A" :> 9)
    /\ ret.fn = "count_observers_who_later_cheat"

\* C5 as stated: in the scenario the observer evaluator returns 1
ScenarioCountsA == ScenarioEvaluated => ret.val = 1

\* C5 as amended: in the scenario the observer evaluator returns 0, because
\* the three kills of C before A's death have one distinct victim
ScenarioCountsNobody == ScenarioEvaluated => ret.exc = "None" /\ ret.val = 0

\* the number of rows of a list of (account_id, team_id) pairs that are on
\* team tid and name a cheater account
CheaterRows(player_list, tid) ==
    Cardinality({i \in 1..Len(player_list) :
        player_list[i][2] = tid /\ player_list[i][1] \in cheater_set})

\* the bucket counts C10 states for a grouping by match: every (match, team)
\* group once, in bucket min(k, 4)
BucketsOf(by_match) ==
    LET groups == {g \in (DOMAIN by_match) \X {"tA", "tB"} :
                      \E i \in 1..Len(by_match[g[1]]) : by_match[g[1]][i][2] = g[2]}
    IN [b \in 0..4 |->
          Cardinality({g \in groups :
              (IF CheaterRows(by_match[g[1]], g[2]) >= 4 THEN 4
               ELSE CheaterRows(by_match[g[1]], g[2])) = b})]

\* the team assignments as they were loaded, by match
LoadedTeams ==
    [mid \in {"m1", "m2"} |->
        LET rows == SelectSeq(teams_data, LAMBDA row : row[1] = mid)
        IN [i \in 1..Len(rows) |-> <<rows[i][2], rows[i][3]>>]]

\* C10: every (match, team) group of the team assignments is counted in
\* exactly one bucket, bucket min(k, 4) for k cheater accounts listed in the
\* group, on the real-data path and on the shuffled path alike.
TeamsBucketedByCheaterCount ==
    /\ ret.fn = "estimate_cheaters_distribution" =>
          ret.exc = "None" /\ ret.val = BucketsOf(LoadedTeams)
    /\ ret.fn = "shuffle_teams_and_count" =>
          ret.exc = "None" /\ ret.val = BucketsOf([mid \in {"m1", "m2"} |->
                IF mid \in DOMAIN trial THEN trial[mid] ELSE <<>>])

\* a shuffled trial that moved a cheater out of a group of five: the four
\* left are counted in bucket 4 as the five were
TeamsBucketWitness ==
    /\ ret.fn = "shuffle_teams_and_count"
    /\ ret.val[4] = 1
    /\ ret.val[0] + ret.val[1] + ret.val[2] + ret.val[3] + ret.val[4] = 2
    /\ ret.val # estimate_cheaters_distribution(teams_data, cheater_set)
    /\ \E g \in DOMAIN group_by_match_team(teams_data, cheater_set) :
          Len(group_by_match_team(teams_data, cheater_set)[g]) = 5

KillAggregators == {"randomize_and_count_victims", "randomize_and_count_observers"}

TeamAggregator == "shuffle_teams_and_get_distribution"

\* an interval end that is the point x
IsPoint(end, x) == end.base = x /\ end.sign = 0 /\ end.sq = <<0, 1>>

\* aggregator fn has just returned or raised
JustEnded(fn) == pc = "idle" /\ ret.fn = fn

\* C6: a kill-based aggregator asked for 0 trials returns (0.0, (0.0, 0.0))
\* and raises nothing; asked for 1 trial it returns that trial's count as the
\* mean, with an interval of width 0 at the mean.
KillAggregatorDegenerate ==
    \A fn \in KillAggregators :
        /\ JustEnded(fn) /\ num_shuffles = 0 =>
              /\ ret.exc = "None"
              /\ ret.val.mean = <<0, 1>>
              /\ IsPoint(ret.val.lower, <<0, 1>>)
              /\ IsPoint(ret.val.upper, <<0, 1>>)
        /\ JustEnded(fn) /\ num_shuffles = 1 =>
              /\ ret.exc = "None"
              /\ ret.val.mean = <<results[1], 1>>
              /\ IsPoint(ret.val.lower, ret.val.mean)
              /\ IsPoint(ret.val.upper, ret.val.mean)

\* the observer aggregator returned from a single trial that counted 1
KillAggregatorDegenerateWitness ==
    /\ JustEnded("randomize_and_count_observers")
    /\ num_shuffles = 1
    /\ results = <<1>>

\* C7: the team-distribution aggregator asked for 0 trials raises nothing and
\* returns mean 0.0 and interval (0.0, 0.0) for every bucket 0..4.
TeamAggregatorZeroTrials ==
    JustEnded(TeamAggregator) /\ num_shuffles = 0 =>
        /\ ret.exc = "None"
        /\ \A b \in 0..4 :
              /\ ret.val.avg[b] = <<0, 1>>
              /\ IsPoint(ret.val.ci[b][1], <<0, 1>>)
              /\ IsPoint(ret.val.ci[b][2], <<0, 1>>)

\* C8: the team-distribution aggregator asked for 1 trial raises nothing and
\* returns, for every bucket 0..4, that trial's count as the mean and an
\* interval that is the point mean.
TeamAggregatorOneTrial ==
    JustEnded(TeamAggregator) /\ num_shuffles = 1 =>
        /\ ret.exc = "None"
        /\ \A b \in 0..4 :
              /\ ret.val.avg[b] = <<results[b][1], 1>>
              /\ IsPoint(ret.val.ci[b][1], ret.val.avg[b])
              /\ IsPoint(ret.val.ci[b][2], ret.val.avg[b])

RECURSIVE SumOfSquares(_)
SumOfSquares(s) == IF s = <<>> THEN 0 ELSE s[1] * s[1] + SumOfSquares(Tail(s))

\* mean and interval ends are those C9 states for the n trial counts vals:
\* mean = sum / n, ends mean -/+ h with h^2 = 1.96^2 * (ssd / n) / n, where
\* ssd = sum of squares - sum^2 / n
IsMeanAndInterval(vals, n, mean, lower, upper) ==
    LET S == SumSeq(vals)
        Q == SumOfSquares(vals)
    IN /\ Len(vals) = n
       /\ mean[1] * n = S * mean[2]
       /\ lower.base = mean /\ upper.base = mean
       /\ lower.sq = upper.sq
       /\ lower.sq = Rat(196 * 196 * (n * Q - S * S), 100 * 100 * n * n * n)
       /\ lower.sign = IF lower.sq[1] = 0 THEN 0 ELSE -1
       /\ upper.sign = IF upper.sq[1] = 0 THEN 0 ELSE 1

\* out is inp with the ids of every match replaced through a bijection on the
\* match's player set, timestamps kept
IsRandomizedCopy(out, inp) ==
    /\ DOMAIN out = DOMAIN inp
    /\ \A mid \in DOMAIN inp :
          /\ Len(out[mid]) = Len(inp[mid])
          /\ AllPlayers(out[mid]) = AllPlayers(inp[mid])
          /\ \A i, j \in 1..Len(inp[mid]) :
                /\ out[mid][i][3] = inp[mid][i][3]
                /\ \A a, b \in {1, 2} :
                      (out[mid][i][a] = out[mid][j][b]) <=> (inp[mid][i][a] = inp[mid][j][b])

\* out is the loaded team assignment with the team labels of every match
\* reordered among its rows
IsShuffledCopy(out) ==
    /\ DOMAIN out = {teams_data[i][1] : i \in 1..Len(teams_data)}
    /\ \A mid \in DOMAIN out :
          /\ Len(out[mid]) = Len(LoadedTeams[mid])
          /\ \A i \in 1..Len(out[mid]) : out[mid][i][1] = LoadedTeams[mid][i][1]
          /\ SameMultiset([i \in 1..Len(out[mid]) |-> out[mid][i][2]],
                          [i \in 1..Len(out[mid]) |-> LoadedTeams[mid][i][2]])

\* C9: asked for N > 1 trials, every aggregator runs exactly N trials, each
\* on a fresh randomized copy of the base data, and returns mean = sum / N
\* and the interval mean -/+ h with h^2 = 1.96^2 * (ssd / N) / N, ssd the sum
\* of squared deviations from the mean (population deviation, divisor N).
AggregatorStatistics ==
    /\ \A fn \in KillAggregators :
          /\ pc = fn \/ JustEnded(fn) => Len(results) <= num_shuffles
          /\ (pc = fn \/ JustEnded(fn)) /\ results # <<>> =>
                /\ IsRandomizedCopy(trial, kills_by_match)
                /\ results[Len(results)] =
                      Evaluate(fn, trial, match_start_time, cheat_start_times).val
          /\ JustEnded(fn) /\ num_shuffles > 1 =>
                /\ ret.exc = "None"
                /\ IsMeanAndInterval(results, num_shuffles, ret.val.mean,
                                     ret.val.lower, ret.val.upper)
    /\ pc = TeamAggregator \/ JustEnded(TeamAggregator) =>
          /\ \A b \in 0..4 : Len(results[b]) = Len(results[0])
          /\ Len(results[0]) <= num_shuffles
          /\ results[0] # <<>> =>
                /\ IsShuffledCopy(trial)
                /\ \A b \in 0..4 : results[b][Len(results[b])] = BucketsOf(trial)[b]
    /\ JustEnded(TeamAggregator) /\ num_shuffles > 1 =>
          /\ ret.exc = "None"
          /\ \A b \in 0..4 :
                IsMeanAndInterval(results[b], num_shuffles, ret.val.avg[b],
                                  ret.val.ci[b][1], ret.val.ci[b][2])

\* the victim aggregator returned from three trials with different counts,
\* so with a mean that is no integer and an interval of positive width
AggregatorStatisticsWitness ==
    /\ JustEnded("randomize_and_count_victims")
    /\ num_shuffles = 3
    /\ results[1] # results[2]
    /\ ret.val.mean[2] = 3
    /\ ret.val.upper.sign = 1

\* the team aggregator returned from two trials that differ in bucket 1
TeamAggregatorStatisticsWitness ==
    /\ JustEnded(TeamAggregator)
    /\ num_shuffles = 2
    /\ results[1][1] # results[1][2]
    /\ ret.val.ci[1][2].sign = 1


\* the sum of the five bucket counts of a distribution
BucketTotal(buckets) == buckets[0] + buckets[1] + buckets[2] + buckets[3] + buckets[4]

\* the number of rows of a list of (account_id, team_id) pairs with label tid
LabelCount(player_list, tid) ==
    Cardinality({i \in 1..Len(player_list) : player_list[i][2] = tid})

\* the (match, team) groups of the loaded team assignments
LoadedGroups ==
    {<<teams_data[i][1], teams_data[i][3]>> : i \in 1..Len(teams_data)}

\* C11: in a shuffled trial of the team-distribution evaluator every account
\* stays at its place in its own match, every team label is one of that
\* match, and each match carries every label as many times as the loaded
\* data does; so the (match, team) groups are those of the loaded data and the
\* five bucket counts sum to the total of the real distribution.
ShuffleKeepsMatchesAndLabels ==
    ret.fn = "shuffle_teams_and_count" =>
        /\ DOMAIN trial = {teams_data[i][1] : i \in 1..Len(teams_data)}
        /\ \A mid \in DOMAIN trial :
              /\ Len(trial[mid]) = Len(LoadedTeams[mid])
              /\ \A i \in 1..Len(trial[mid]) :
                    /\ trial[mid][i][1] = LoadedTeams[mid][i][1]
                    /\ <<mid, trial[mid][i][2]>> \in LoadedGroups
              /\ \A tid \in {"tA", "tB"} :
                    LabelCount(trial[mid], tid) = LabelCount(LoadedTeams[mid], tid)
        /\ BucketTotal(ret.val) = Cardinality(LoadedGroups)
        /\ BucketTotal(ret.val) =
              BucketTotal(estimate_cheaters_distribution(teams_data, cheater_set))

\* a shuffled trial over two matches that moved an account of m1 to the
\* other team of m1 and so changed the distribution, while m2 has both teams
ShuffleKeepsLabelsWitness ==
    /\ ret.fn = "shuffle_teams_and_count"
    /\ DOMAIN trial = {"m1", "m2"}
    /\ \E i \in 1..Len(trial["m1"]) : trial["m1"][i][2] # LoadedTeams["m1"][i][2]
    /\ LabelCount(trial["m2"], "tA") = 1 /\ LabelCount(trial["m2"], "tB") = 1
    /\ ret.val # estimate_cheaters_distribution(teams_data, cheater_set)

\* C12: no step of any aggregator, of an evaluator or of the randomizer
\* changes the base data: kills_by_match with the order of every event list,
\* match_start_time, cheat_start_times, the team rows, the per-match team
\* assignment lists and the cheater set; and what a trial works on is its own
\* randomized copy of them.
BaseDataNeverMutated ==
    [][/\ UNCHANGED base
       /\ pc \in KillAggregators /\ pc' = pc =>
             IsRandomizedCopy(trial', kills_by_match)
       /\ pc = TeamAggregator /\ pc' = pc => IsShuffledCopy(trial')]_vars

\* after two trials of the observer aggregator on kill rows that are not in
\* chronological order, the last trial's copy differs from the base data and
\* the base rows are still in file order
BaseDataWitness ==
    /\ JustEnded("randomize_and_count_observers")
    /\ Len(results) >= 2
    /\ trial # kills_by_match
    /\ kills_by_match["m1"] # SortedByTime(kills_by_match["m1"])

Evaluators == {"count_victims_of_cheating", "count_observers_who_later_cheat"}

\* the matches of kills_by_match that have an entry in match_start_time
KillsWithStart ==
    [mid \in DOMAIN kills_by_match \cap DOMAIN match_start_time |->
        kills_by_match[mid]]

CountedObservers ==
    UNION {ObserversOfMatch(kills_by_match[m], match_start_time[m],
                            cheat_start_times) :
              m \in {mid \in DOMAIN kills_by_match : kills_by_match[mid] # <<>>}}

\* B, cheating when match m starts, has at least 3 distinct victims strictly
\* before time t
StreakBefore(B, m, t) ==
    /\ CheatsBy(B, DateOf(match_start_time[m]))
    /\ Cardinality({kills_by_match[m][i][2] :
          i \in {j \in 1..Len(kills_by_match[m]) :
                   /\ kills_by_match[m][j][1] = B
                   /\ DtLess(kills_by_match[m][j][3], t)}}) >= 3

Reorderings(events) ==
    {s \in [1..Len(events) -> {events[i] : i \in 1..Len(events)}] :
        SameMultiset(s, events)}

\* every per-match reordering of the event lists of kills_by_match
ReorderingsOfKills ==
    {[mid \in MatchIds |-> IF mid = "m1" THEN r1 ELSE r2] :
        r1 \in Reorderings(kills_by_match["m1"]),
        r2 \in Reorderings(kills_by_match["m2"])}

\* C15: on every per-match reordering of the event lists, rows with equal
\* timestamps included, count_victims_of_cheating returns what it returned on
\* the given order, and so does count_observers_who_later_cheat.
EvaluatorsIgnoreEventOrder ==
    /\ ret.fn = "count_victims_of_cheating" =>
          \A r \in ReorderingsOfKills :
              Call(ret.fn, count_victims_of_cheating(r, match_start_time,
                                                     cheat_start_times)) = ret
    /\ ret.fn = "count_observers_who_later_cheat" =>
          \A r \in ReorderingsOfKills :
              Call(ret.fn, count_observers_who_later_cheat(r, match_start_time,
                                                           cheat_start_times)) = ret

\* the observer evaluator counted an account on rows that are not in
\* chronological order, three of them with one timestamp
EventOrderWitness ==
    /\ ret.fn = "count_observers_who_later_cheat"
    /\ ret.val >= 1
    /\ kills_by_match["m1"] # SortedByTime(kills_by_match["m1"])
    /\ Cardinality({i \in 1..Len(kills_by_match["m1"]) :
          kills_by_match["m1"][i][3] = <<0, 0>>}) >= 3
    /\ Cardinality(ReorderingsOfKills) >= 24
====
